---- MODULE Spec2Model ----
(***************************************************************************)
(* The convolutional seismic model of fatiando/seismic/conv.py:            *)
(* seismic_convolutional_model and rickerwave.                             *)
(*                                                                         *)
(* Numbers.  The source computes in IEEE doubles; here every finite value  *)
(* is an exact rational <<n, d>> in lowest terms with d > 0, and the       *)
(* non-finite doubles numpy produces on a division by zero are <<1, 0>>    *)
(* (+inf), <<-1, 0>> (-inf) and <<0, 0>> (nan).  Rounding error is not     *)
(* modelled.  The Ricker wavelet's samples are irrational (exp, pi): a     *)
(* sample is kept as the integer multiple of f*dt*pi that is its phase     *)
(* alpha, and a seismogram sample as its vector of coefficients on the     *)
(* wavelet's samples.                                                      *)
(*                                                                         *)
(* Arrays keep the source's 0-based indices: model[i, j] is depth sample i *)
(* of trace j, a 1-D array is a function on 0..n-1.                        *)
(***************************************************************************)
EXTENDS Integers, Sequences, FiniteSets, TLC

VARIABLES n_samples, n_traces, model, f, dz, dt, rho,
          pc, j, TWT, TMAX, TWT_rs, vel, vel_l, TWT_ts, rho2, rho_l,
          rc, w, synth_l, result, ret

inputs == <<n_samples, n_traces, model, f, dz, dt, rho>>
locals == <<TWT, TMAX, TWT_rs, vel, vel_l, TWT_ts, rho2, rho_l, rc, w, synth_l>>
vars == <<inputs, pc, j, locals, result, ret>>

(***************************************************************************)
(* Rational arithmetic                                                     *)
(***************************************************************************)
Abs(a) == IF a < 0 THEN -a ELSE a
Sign(a) == IF a < 0 THEN -1 ELSE IF a > 0 THEN 1 ELSE 0
Min2(a, b) == IF a < b THEN a ELSE b
Max2(a, b) == IF a < b THEN b ELSE a

RECURSIVE GCD(_, _)
GCD(a, b) == IF b = 0 THEN a ELSE GCD(b, a % b)

Rat(n, d) ==
    LET g == GCD(Abs(n), Abs(d))
    IN  IF d < 0 THEN <<(-n) \div g, (-d) \div g>> ELSE <<n \div g, d \div g>>

RInt(n) == <<n, 1>>
Zero == <<0, 1>>
One == <<1, 1>>
PosInf == <<1, 0>>
NaN == <<0, 0>>
IsFinite(a) == a[2] # 0

RAdd(a, b) ==
    IF IsFinite(a) /\ IsFinite(b) THEN Rat(a[1] * b[2] + b[1] * a[2], a[2] * b[2])
    ELSE IF IsFinite(b) THEN a
    ELSE IF IsFinite(a) THEN b
    ELSE IF a = b THEN a ELSE NaN
RNeg(a) == <<-a[1], a[2]>>
RSub(a, b) == RAdd(a, RNeg(b))
RMul(a, b) == Rat(a[1] * b[1], a[2] * b[2])
\* numpy's true division of two finite doubles: x/0 is +-inf, 0/0 is nan.
RDiv(a, b) ==
    IF b[1] = 0 THEN <<Sign(a[1]), 0>> ELSE Rat(a[1] * b[2], a[2] * b[1])
\* a < b; also right when one side is +-inf (never used on nan).
RLess(a, b) == a[1] * b[2] < b[1] * a[2]
RLeq(a, b) == ~RLess(b, a)
\* np.ceil and np.floor of a finite value.
RCeil(a) == -((-a[1]) \div a[2])
RFloor(a) == a[1] \div a[2]

(***************************************************************************)
(* Python indexing of a length-n axis                                      *)
(***************************************************************************)
\* a[i] raises IndexError unless -n <= i < n; a negative i counts from the end.
ValidIndex(i, n) == -n <= i /\ i < n
Wrap(i, n) == IF i < 0 THEN i + n ELSE i
\* the bound of a slice: negative counts from the end, then clipped to 0..n.
Clamp(i, n) == IF i < 0 THEN Max2(i + n, 0) ELSE Min2(i, n)
\* the indices a[lo:hi] selects, and a[lo:]
Slice(lo, hi, n) == Clamp(lo, n) .. (Clamp(hi, n) - 1)
SliceFrom(lo, n) == Clamp(lo, n) .. (n - 1)

(***************************************************************************)
(* Lines 41-48: two-way travel time                                        *)
(***************************************************************************)
\* dt_dwn = dt/10.
Downsampling == 10
dt_dwn(dt_) == RDiv(dt_, RInt(Downsampling))
\* resmpl = int(dt/dt_dwn); int() truncates, and the quotient is positive
resmpl(dt_) == RFloor(RDiv(dt_, dt_dwn(dt_)))

\* 2*dz/model[lo, jt] + ... + 2*dz/model[hi, jt].  The source adds the terms
\* one by one down the trace; the sum is split in halves here, which exact
\* arithmetic makes the same number (and keeps the evaluation shallow).
RECURSIVE TermSum(_, _, _, _, _)
TermSum(model_, dz_, lo, hi, jt) ==
    IF lo = hi THEN RDiv(RInt(2 * dz_), RInt(model_[lo, jt]))
    ELSE RAdd(TermSum(model_, dz_, lo, (lo + hi) \div 2, jt),
              TermSum(model_, dz_, (lo + hi) \div 2 + 1, hi, jt))

\* TWT[0, :] = 2*dz/model[0, :]; TWT[j, :] = TWT[j-1] + 2*dz/model[j, :]
TravelTime(model_, dz_, i, jt) == TermSum(model_, dz_, 0, i, jt)

TravelTimes(model_, ns, nt, dz_) ==
    [i \in 0..(ns - 1), jt \in 0..(nt - 1) |-> TravelTime(model_, dz_, i, jt)]

\* max(TWT[-1, :])
MaxLast(TWT_, ns, nt) ==
    LET last == {TWT_[ns - 1, jt] : jt \in 0..(nt - 1)}
    IN  CHOOSE m \in last : \A x \in last : RLeq(x, m)

(***************************************************************************)
(* Lines 50-53: the fine time grid                                         *)
(***************************************************************************)
\* (faulty variant: the length rounded down)
FineLenFloor(TMAX_, dt_) == RFloor(RDiv(TMAX_, dt_dwn(dt_)))

\* np.ceil(TMAX/dt_dwn), the length of TWT_rs and of vel's first axis
FineLen(TMAX_, dt_) == RCeil(RDiv(TMAX_, dt_dwn(dt_)))

\* TWT_rs[j] = TWT_rs[j-1] + dt_dwn from TWT_rs[0] = 0: the running sum of i
\* equal terms, which exact arithmetic makes i*dt_dwn
GridTime(i, dt_) == RMul(RInt(i), dt_dwn(dt_))

(***************************************************************************)
(* scipy.interpolate.interp1d(x, y), linear, as lines 58 and 81 call it:   *)
(* assume_sorted=False sorts the points by x, bounds_error=True raises     *)
(* ValueError for an abscissa outside [min x, max x].  The abscissae of a  *)
(* trace are pairwise different in every input enumerated below.           *)
(***************************************************************************)
\* an array holding its values: evaluated once, then indexed
Array(a) == IF a = a THEN a ELSE a

Rank(x, ns, i) == Cardinality({m \in 0..(ns - 1) : RLess(x[m], x[i])})
\* tck = interp1d(x, y): the points, sorted by abscissa
interp1d(x, y, ns) ==
    LET ranks == Array([i \in 0..(ns - 1) |-> Rank(x, ns, i)])
        order == Array([k \in 0..(ns - 1) |-> CHOOSE i \in 0..(ns - 1) : ranks[i] = k])
    IN  [x |-> Array([k \in 0..(ns - 1) |-> x[order[k]]]),
         y |-> Array([k \in 0..(ns - 1) |-> y[order[k]]])]
\* np.searchsorted(tck.x, t), side 'left'
SearchSorted(xs, ns, t) == Cardinality({m \in 0..(ns - 1) : RLess(xs[m], t)})

OutOfBounds(tck, ns, t) == RLess(t, tck.x[0]) \/ RLess(tck.x[ns - 1], t)

\* tck(t)
InterpValue(tck, ns, t) ==
    LET hi == Min2(Max2(SearchSorted(tck.x, ns, t), 1), ns - 1)
        lo == Wrap(hi - 1, ns)
        slope == RDiv(RSub(tck.y[hi], tck.y[lo]), RSub(tck.x[hi], tck.x[lo]))
    IN  RAdd(RMul(slope, RSub(t, tck.x[lo])), tck.y[lo])

(***************************************************************************)
(* Lines 55-63 (velocity) and 78-86 (density): one trace's property on the *)
(* fine grid.  x is TWT[:, j], y the property's column, col0 the column of *)
(* the np.ones array being filled.  The result is the error raised, or     *)
(* "none" and the column.                                                  *)
(***************************************************************************)
Kk(x, dt_) == RCeil(RDiv(x[0], dt_dwn(dt_)))
Lim(x, ns, dt_) == RCeil(RDiv(x[ns - 1], dt_dwn(dt_))) - 1

\* vel[kk:lim, j] = tck(TWT_rs[kk:lim])
Interpolated(tck, ns, kk, lim, grid, n, col0) ==
    [i \in 0..(n - 1) |->
        IF i \in Slice(kk, lim, n) THEN InterpValue(tck, ns, grid[i]) ELSE col0[i]]

\* vel[lim:, j] = vel[lim-1, j]
Extended(col, lim, n) ==
    [i \in 0..(n - 1) |->
        IF i \in SliceFrom(lim, n) THEN col[Wrap(lim - 1, n)] ELSE col[i]]

\* (faulty variant: line 63 left out)
LeadingMissing(col, kk, first, n) == col

\* vel[0:kk, j] = model[0, j]
Leading(col, kk, first, n) ==
    [i \in 0..(n - 1) |-> IF i \in Slice(0, kk, n) THEN first ELSE col[i]]

ResampleColumn(x, y, ns, grid, n, col0, dt_) ==
    LET tck == interp1d(x, y, ns)
        kk == Kk(x, dt_)
        lim == Lim(x, ns, dt_)
    IN  IF \E i \in Slice(kk, lim, n) : OutOfBounds(tck, ns, grid[i])
        THEN [err |-> "ValueError", col |-> col0]
        ELSE IF ~ValidIndex(lim - 1, n)
        THEN [err |-> "IndexError", col |-> col0]
        ELSE [err |-> "none",
              col |-> Leading(Extended(Array(Interpolated(tck, ns, kk, lim, grid, n,
                                                          col0)),
                                       lim, n), kk, y[0], n)]

Shape(ns, nt) == (0..(ns - 1)) \X (0..(nt - 1))

\* a[:, jt], and a[:, jt] = col
Column(a, n, jt) == [i \in 0..(n - 1) |-> a[i, jt]]
SetColumn(a, n, nt, jt, col) ==
    [i \in 0..(n - 1), t \in 0..(nt - 1) |-> IF t = jt THEN col[i] ELSE a[i, t]]

\* (faulty variant: the travel times of trace 0 used for every trace)
ResampleTraceSharedTimes(TWT_, prop, ns, grid, n, a, jt, dt_) ==
    ResampleColumn(Array(Column(TWT_, ns, 0)),
                   Array([i \in 0..(ns - 1) |-> RInt(prop[i, jt])]),
                   ns, grid, n, Column(a, n, jt), dt_)

\* the body of the loop over the traces, for trace jt: prop is the depth
\* model of the property (integers), a the fine-grid array being filled
ResampleTrace(TWT_, prop, ns, grid, n, a, jt, dt_) ==
    ResampleColumn(Array(Column(TWT_, ns, jt)),
                   Array([i \in 0..(ns - 1) |-> RInt(prop[i, jt])]),
                   ns, grid, n, Column(a, n, jt), dt_)

(***************************************************************************)
(* Lines 65-73: decimation from dt_dwn to dt                               *)
(***************************************************************************)
\* np.ceil(TMAX/dt), the length of vel_l, TWT_ts, rc and synth_l
OutLen(TMAX_, dt_) == RCeil(RDiv(TMAX_, dt_))

\* the first-axis indices lines 68-73 read from vel and TWT_rs
DecimationReads(m, r) == {0} \cup {r * jj : jj \in 1..(m - 1)}

\* (faulty variant: every fine sample taken, the factor resmpl forgotten)
DecimatedEveryFineSample(a, m, nt, r) ==
    [i \in 0..(m - 1), jt \in 0..(nt - 1) |-> a[i, jt]]

\* vel_l[0, :] = vel[0, :]; vel_l[jj, j] = vel[resmpl*jj, j]
Decimated(a, m, nt, r) ==
    [i \in 0..(m - 1), jt \in 0..(nt - 1) |->
        IF i = 0 THEN a[0, jt] ELSE a[r * i, jt]]

\* TWT_ts[j, :] = TWT_rs[resmpl*j], TWT_ts[0, :] left at 0
TimeAxis(grid, m, nt, r) ==
    [i \in 0..(m - 1), jt \in 0..(nt - 1) |->
        IF i = 0 THEN Zero ELSE grid[r * i]]

(***************************************************************************)
(* Lines 95-100: reflection coefficients                                   *)
(***************************************************************************)
\* Python's ~ on a bool: ~True = -2, ~False = -1
BitNot(b) == -(IF b THEN 1 ELSE 0) - 1
Truthy(v) == v # 0

\* (faulty variant: the contrast over the lower sample alone)
ReflectivityOverLower(z, m, nt) ==
    [i \in 0..(m - 1), jt \in 0..(nt - 1) |->
        IF i = 0 THEN Zero ELSE RDiv(RSub(z[i, jt], z[i - 1, jt]), z[i, jt])]

\* rc = zeros; rc[1:, :] = (z[1:, :] - z[:-1, :])/(z[1:, :] + z[:-1, :])
Reflectivity(z, m, nt) ==
    [i \in 0..(m - 1), jt \in 0..(nt - 1) |->
        IF i = 0 THEN Zero
        ELSE RDiv(RSub(z[i, jt], z[i - 1, jt]), RAdd(z[i, jt], z[i - 1, jt]))]

(***************************************************************************)
(* Lines 116-125: rickerwave.  w[k-1], k = 1..nw, is kept as its phase     *)
(* alpha in units of f*dt*pi, beta = alpha^2 in units of (f*dt*pi)^2, and  *)
(* the amplitude (1 - 2 beta) exp(-beta): <<"one", 0>> is the exact 1.0 of *)
(* beta = 0, <<"ricker", beta>> the irrational value of another beta.      *)
(***************************************************************************)
\* 2.2/f/dt
NwRaw(f_, dt_) == RDiv(RDiv(<<11, 5>>, RInt(f_)), dt_)
Nw(f_, dt_) == 2 * RFloor(RDiv(NwRaw(f_, dt_), RInt(2))) + 1
Nc(nw) == RFloor(<<nw, 2>>)
\* (faulty variant: the shift of the 1-based sample number forgotten)
AlphaUnshifted(nc, k) == nc - k
\* alpha = (nc-k+1)*f*dt*np.pi, in units of f*dt*pi
Alpha(nc, k) == nc - k + 1
Amplitude(beta) == IF beta = 0 THEN <<"one", 0>> ELSE <<"ricker", beta>>

rickerwave(f_, dt_) ==
    LET nw == Nw(f_, dt_)
        nc == Nc(nw)
    IN  [i \in 0..(nw - 1) |->
            [alpha |-> Alpha(nc, i + 1),
             beta |-> Alpha(nc, i + 1) * Alpha(nc, i + 1),
             amp |-> Amplitude(Alpha(nc, i + 1) * Alpha(nc, i + 1))]]

(***************************************************************************)
(* Lines 106-112: convolution.  A product rc[k]*w[m] cannot be evaluated,  *)
(* so an output sample is the vector, indexed by m, of the coefficients    *)
(* that multiply w[m] in it.                                               *)
(***************************************************************************)
\* np.convolve(a, v, mode='full')[n] = sum over k of a[k]*v[n-k]
ConvFull(a, la, nw) ==
    [n \in 0..(la + nw - 2) |->
        [m \in 0..(nw - 1) |-> IF 0 <= n - m /\ n - m < la THEN a[n - m] ELSE Zero]]

\* mode='same': max(la, nw) samples of the full convolution, from the one
\* where the shorter operand is centred on the first sample of the longer
SameStart(la, nw) == (Min2(la, nw) - 1) - (Min2(la, nw) \div 2)
ConvSame(a, la, nw) ==
    [i \in 0..(Max2(la, nw) - 1) |-> ConvFull(a, la, nw)[SameStart(la, nw) + i]]

\* (faulty variant: the half length rounded up)
AuxRoundedUp(nw) == RCeil(<<nw, 2>>)

\* aux = np.floor(len(w)/2.)
Aux(nw) == RFloor(<<nw, 2>>)

\* the samples line 109 or line 112 assigns to synth_l[:, j], as a 0-based array
ConvolveTrace(a, la, nw) ==
    IF la >= nw THEN ConvSame(a, la, nw)
    ELSE LET full == ConvFull(a, la, nw)
             from == Clamp(Aux(nw), la + nw - 1)
             upto == Clamp(-Aux(nw), la + nw - 1)
         IN  [i \in 0..(upto - from - 1) |-> full[from + i]]

LenOf(a) == Cardinality(DOMAIN a)

(***************************************************************************)
(* The call: the arguments, then the statements of                         *)
(* seismic_convolutional_model in order, one step per block and one per    *)
(* trace in the two per-trace loops.  An exception ends the call: result   *)
(* names it and ret stays NoValue.                                         *)
(***************************************************************************)
NoValue == <<>>
\* rho: the default scalar 1., or an np.ndarray
NoDensity == [array |-> FALSE, value |-> One]
DensityArray(a) == [array |-> TRUE, value |-> a]

Raise(e) ==
    /\ pc' = "done"
    /\ result' = e
    /\ UNCHANGED <<inputs, j, locals, ret>>

\* lines 41-48
StepTravelTime ==
    /\ pc = "traveltime"
    /\ TWT' = TravelTimes(model, n_samples, n_traces, dz)
    /\ TMAX' = MaxLast(TWT', n_samples, n_traces)
    /\ pc' = "finegrid"
    /\ UNCHANGED <<inputs, j, TWT_rs, vel, vel_l, TWT_ts, rho2, rho_l, rc, w,
                   synth_l, result, ret>>

\* lines 50-53: np.zeros of an infinite or a negative length raises
StepFineGrid ==
    /\ pc = "finegrid"
    /\ IF ~IsFinite(TMAX) THEN Raise("OverflowError")
       ELSE IF FineLen(TMAX, dt) < 0 THEN Raise("ValueError")
       ELSE /\ TWT_rs' = [i \in 0..(FineLen(TMAX, dt) - 1) |-> GridTime(i, dt)]
            /\ vel' = [ij \in Shape(FineLen(TMAX, dt), n_traces) |-> One]
            /\ j' = 0
            /\ pc' = "resample"
            /\ UNCHANGED <<inputs, TWT, TMAX, vel_l, TWT_ts, rho2, rho_l, rc, w,
                           synth_l, result, ret>>

\* lines 54-63, one pass of the loop over the traces
StepResample ==
    /\ pc = "resample"
    /\ IF j >= n_traces
       THEN /\ pc' = "decimate"
            /\ UNCHANGED <<inputs, j, locals, result, ret>>
       ELSE LET n == LenOf(TWT_rs)
                r == ResampleTrace(TWT, model, n_samples, TWT_rs, n, vel, j, dt)
            IN  IF r.err # "none" THEN Raise(r.err)
                ELSE /\ vel' = SetColumn(vel, n, n_traces, j, r.col)
                     /\ j' = j + 1
                     /\ UNCHANGED <<inputs, pc, TWT, TMAX, TWT_rs, vel_l, TWT_ts,
                                    rho2, rho_l, rc, w, synth_l, result, ret>>

\* lines 65-73
StepDecimate ==
    /\ pc = "decimate"
    /\ LET n == LenOf(TWT_rs)
           m == OutLen(TMAX, dt)
       IN  IF \E i \in DecimationReads(m, resmpl(dt)) : ~ValidIndex(i, n)
           THEN Raise("IndexError")
           ELSE /\ vel_l' = Decimated(vel, m, n_traces, resmpl(dt))
                /\ TWT_ts' = TimeAxis(TWT_rs, m, n_traces, resmpl(dt))
                /\ pc' = "density"
                /\ UNCHANGED <<inputs, j, TWT, TMAX, TWT_rs, vel, rho2, rho_l, rc,
                               w, synth_l, result, ret>>

\* lines 77-86 for every trace: the error of the first trace that raises one
DensityColumns ==
    [jt \in 0..(n_traces - 1) |->
        ResampleTrace(TWT, rho.value, n_samples, TWT_rs, LenOf(TWT_rs),
                      [ij \in Shape(LenOf(TWT_rs), n_traces) |-> One], jt, dt)]
DensityError(cols) ==
    IF \A jt \in 0..(n_traces - 1) : cols[jt].err = "none" THEN "none"
    ELSE cols[CHOOSE jt \in 0..(n_traces - 1) :
                 /\ cols[jt].err # "none"
                 /\ \A t \in 0..(jt - 1) : cols[t].err = "none"].err

\* lines 88-93: rho_l[0, :] = rho2[0, :]; rho_l[jj, j] = rho[resmpl*jj, j]
DensityDecimated(rho2_, rho_, m, nt, r) ==
    [i \in 0..(m - 1), jt \in 0..(nt - 1) |->
        IF i = 0 THEN rho2_[0, jt] ELSE RInt(rho_[r * i, jt])]

\* lines 75-93
StepDensity ==
    /\ pc = "density"
    /\ IF ~rho.array
       THEN /\ pc' = "reflectivity"
            /\ UNCHANGED <<inputs, j, locals, result, ret>>
       ELSE LET cols == DensityColumns
                m == OutLen(TMAX, dt)
            IN  IF DensityError(cols) # "none" THEN Raise(DensityError(cols))
                ELSE IF \E jj \in 1..(m - 1) : ~ValidIndex(resmpl(dt) * jj, n_samples)
                THEN Raise("IndexError")
                ELSE /\ rho2' = [ij \in Shape(LenOf(TWT_rs), n_traces) |->
                                    cols[ij[2]].col[ij[1]]]
                     /\ rho_l' = DensityDecimated(rho2', rho.value, m, n_traces, resmpl(dt))
                     /\ pc' = "reflectivity"
                     /\ UNCHANGED <<inputs, j, TWT, TMAX, TWT_rs, vel, vel_l,
                                    TWT_ts, rc, w, synth_l, result, ret>>

\* lines 95-100: the else branch assigns into an rc that was never created
StepReflectivity ==
    /\ pc = "reflectivity"
    /\ IF Truthy(BitNot(rho.array))
       THEN /\ rc' = Reflectivity(vel_l, OutLen(TMAX, dt), n_traces)
            /\ pc' = "wavelet"
            /\ UNCHANGED <<inputs, j, TWT, TMAX, TWT_rs, vel, vel_l, TWT_ts, rho2,
                           rho_l, w, synth_l, result, ret>>
       ELSE Raise("NameError")

\* lines 103-106: w = rickerwave(f, dt); synth_l = np.zeros(np.shape(rc))
StepWavelet ==
    /\ pc = "wavelet"
    /\ w' = rickerwave(f, dt)
    /\ synth_l' = [ij \in Shape(OutLen(TMAX, dt), n_traces) |->
                      [m \in 0..(LenOf(w') - 1) |-> Zero]]
    /\ j' = 0
    /\ pc' = "convolve"
    /\ UNCHANGED <<inputs, TWT, TMAX, TWT_rs, vel, vel_l, TWT_ts, rho2, rho_l, rc,
                   result, ret>>

\* lines 107-112, one pass of the loop over the traces; an array of another
\* length than the column (and than 1) does not broadcast into it
StepConvolve ==
    /\ pc = "convolve"
    /\ IF j >= n_traces
       THEN /\ pc' = "return"
            /\ UNCHANGED <<inputs, j, locals, result, ret>>
       ELSE LET m == OutLen(TMAX, dt)
                conv == ConvolveTrace(Column(rc, m, j), m, LenOf(w))
            IN  IF LenOf(conv) # m /\ LenOf(conv) # 1 THEN Raise("ValueError")
                ELSE /\ synth_l' = SetColumn(synth_l, m, n_traces, j,
                                       [i \in 0..(m - 1) |->
                                           IF LenOf(conv) = m THEN conv[i] ELSE conv[0]])
                     /\ j' = j + 1
                     /\ UNCHANGED <<inputs, pc, TWT, TMAX, TWT_rs, vel, vel_l, TWT_ts,
                                    rho2, rho_l, rc, w, result, ret>>

\* line 113
StepReturn ==
    /\ pc = "return"
    /\ ret' = [synth_l |-> synth_l, TWT_ts |-> TWT_ts]
    /\ result' = "returned"
    /\ pc' = "done"
    /\ UNCHANGED <<inputs, j, locals>>

Next ==
    \/ StepTravelTime
    \/ StepFineGrid
    \/ StepResample
    \/ StepDecimate
    \/ StepDensity
    \/ StepReflectivity
    \/ StepWavelet
    \/ StepConvolve
    \/ StepReturn

(***************************************************************************)
(* The calls checked                                                       *)
(***************************************************************************)
MaxSamples == 3
MaxTraces == 2
MaxHalf == 6
DensitySamples == 16

Call(ns, nt, m, f_, dz_, dt_, rho_) ==
    [n_samples |-> ns, n_traces |-> nt, model |-> m, f |-> f_, dz |-> dz_,
     dt |-> dt_, rho |-> rho_]

\* a trace of one or two layers: velocity a above depth sample k, b from it on
Profiles(ns, velocities) ==
    {[i \in 0..(ns - 1) |-> IF i < k THEN a ELSE b] :
        k \in 1..ns, a \in velocities, b \in velocities}
LayeredModels(ns, nt, velocities) ==
    {[ij \in Shape(ns, nt) |-> cols[ij[2]][ij[1]]] :
        cols \in [0..(nt - 1) -> Profiles(ns, velocities)]}

\* positive models of small shapes over a slow and a fast velocity, at
\* dt = 0.01 with wavelets of 3 and 7 samples
GeneralCalls ==
    UNION {UNION {{Call(ns, nt, m, ff, 1, <<1, 100>>, NoDensity) :
                      m \in LayeredModels(ns, nt, {150, 3000}), ff \in {100, 30}} :
                  nt \in 1..MaxTraces} : ns \in 1..MaxSamples}

\* (f, dt): wavelets of 37, 3, 3 and 1 samples
WaveletArgs == {<<30, <<1, 500>>>>, <<300, <<1, 500>>>>, <<30, <<1, 50>>>>,
                <<300, <<1, 50>>>>}

\* one velocity everywhere; the last is the 50-sample case at 2000
ConstantCalls ==
    UNION {UNION {{Call(ns, nt, [ij \in Shape(ns, nt) |-> v], p[1], dz_, p[2], NoDensity) :
                      v \in {2000, 3000}, p \in WaveletArgs, dz_ \in {1, 2}} :
                  nt \in 1..MaxTraces} : ns \in 1..MaxSamples}
    \cup {Call(50, 1, [ij \in Shape(50, 1) |-> 2000], 30, 1, <<1, 500>>, NoDensity)}

\* 1500 on the first half of the depth samples, 3000 on the second
StepModel(h) == [ij \in Shape(2 * h, 1) |-> IF ij[1] < h THEN 1500 ELSE 3000]
StepCalls ==
    {Call(2 * h, 1, StepModel(h), ff, 1, <<1, 500>>, NoDensity) :
        h \in 1..MaxHalf, ff \in {30, 300}}

\* models with a velocity that is zero or negative
InvalidCalls ==
    UNION {UNION {{Call(ns, nt, m, 30, 1, dt_, NoDensity) :
                      m \in {mm \in [Shape(ns, nt) -> {1500, 0, -3000}] :
                                \E ij \in Shape(ns, nt) : mm[ij] <= 0},
                      dt_ \in {<<1, 500>>, <<1, 50>>}} :
                  nt \in 1..2} : ns \in 1..2}

\* a density array: short models, and a long one of constant velocity whose
\* density steps from 1000 to 2000 at depth sample k
DensityCalls ==
    UNION {{Call(ns, 1, m, 30, 1, <<1, 50>>, DensityArray(r)) :
               m \in [Shape(ns, 1) -> {150, 3000}],
               r \in [Shape(ns, 1) -> {1000, 2000}]} : ns \in 1..2}
    \cup {Call(DensitySamples, 1, [ij \in Shape(DensitySamples, 1) |-> 1500], 30, 1,
               <<1, 50>>,
               DensityArray([ij \in Shape(DensitySamples, 1) |->
                                IF ij[1] < k THEN 1000 ELSE 2000])) :
             k \in 0..DensitySamples}

Calls == GeneralCalls \cup ConstantCalls \cup StepCalls \cup InvalidCalls
            \cup DensityCalls

Init ==
    /\ \E c \in Calls :
        /\ n_samples = c.n_samples
        /\ n_traces = c.n_traces
        /\ model = c.model
        /\ f = c.f
        /\ dz = c.dz
        /\ dt = c.dt
        /\ rho = c.rho
    /\ pc = "traveltime"
    /\ j = 0
    /\ TWT = NoValue /\ TMAX = NoValue /\ TWT_rs = NoValue /\ vel = NoValue
    /\ vel_l = NoValue /\ TWT_ts = NoValue /\ rho2 = NoValue /\ rho_l = NoValue
    /\ rc = NoValue /\ w = NoValue /\ synth_l = NoValue
    /\ result = "pending"
    /\ ret = NoValue

Spec == Init /\ [][Next]_vars

(***************************************************************************)
(* rickerwave(f, dt) called on its own                                     *)
(***************************************************************************)
MaxFrequency == 60

InitRicker ==
    /\ f \in 1..MaxFrequency
    /\ dt \in {<<1, 500>>, <<1, 250>>, <<1, 50>>}
    /\ pc = "rickerwave"
    /\ n_samples = 0 /\ n_traces = 0 /\ model = NoValue /\ dz = 1
    /\ rho = NoDensity
    /\ j = 0
    /\ TWT = NoValue /\ TMAX = NoValue /\ TWT_rs = NoValue /\ vel = NoValue
    /\ vel_l = NoValue /\ TWT_ts = NoValue /\ rho2 = NoValue /\ rho_l = NoValue
    /\ rc = NoValue /\ w = NoValue /\ synth_l = NoValue
    /\ result = "pending"
    /\ ret = NoValue

\* lines 116-125, the wavelet returned
StepRicker ==
    /\ pc = "rickerwave"
    /\ w' = rickerwave(f, dt)
    /\ ret' = w'
    /\ result' = "returned"
    /\ pc' = "done"
    /\ UNCHANGED <<inputs, j, TWT, TMAX, TWT_rs, vel, vel_l, TWT_ts, rho2, rho_l, rc,
                   synth_l>>

NextRicker == StepRicker

SpecRicker == InitRicker /\ [][NextRicker]_vars

(***************************************************************************)
(* Properties                                                              *)
(***************************************************************************)
PositiveModel == \A ij \in Shape(n_samples, n_traces) : model[ij] > 0
ConstantModel ==
    /\ PositiveModel
    /\ \A ij \in Shape(n_samples, n_traces) : model[ij] = model[0, 0]
Returned == pc = "done" /\ result = "returned"
\* vel is complete, vel_l and TWT_ts are assigned, rc is assigned
VelReady == pc \in {"decimate", "density", "reflectivity", "wavelet", "convolve",
                    "return"} \/ Returned
DecimatedReady == pc \in {"density", "reflectivity", "wavelet", "convolve", "return"}
                      \/ Returned
RcReady == pc \in {"wavelet", "convolve", "return"} \/ Returned
AllZero(coefficients) == \A m \in DOMAIN coefficients : coefficients[m] = Zero

\* C1: a model of one positive velocity everywhere, called without a density
\* array, has reflection coefficient 0 at every sample of every trace, and the
\* call returns a seismogram that is 0 at every sample of every trace.
C1_ConstantVelocityIsSilent ==
    (ConstantModel /\ ~rho.array) =>
        /\ RcReady => \A ij \in DOMAIN rc : rc[ij] = Zero
        /\ pc = "done" =>
              /\ result = "returned"
              /\ \A ij \in DOMAIN ret.synth_l : AllZero(ret.synth_l[ij])

\* the 50-sample model of velocity 2000 (dz = 1, f = 30, dt = 0.002) has returned
C1_Witness ==
    /\ Returned /\ ConstantModel /\ ~rho.array
    /\ n_samples = 50 /\ n_traces = 1 /\ model[0, 0] = 2000
    /\ dz = 1 /\ f = 30 /\ dt = <<1, 500>>

\* C7: for a model of positive velocities, every trace has RC[0] = 0 and every
\* RC[j], j >= 1, in [-1, 1].
C7_ReflectivityRange ==
    (PositiveModel /\ RcReady) =>
        \A jt \in 0..(n_traces - 1) :
            /\ rc[0, jt] = Zero
            /\ \A i \in 1..(OutLen(TMAX, dt) - 1) :
                  /\ IsFinite(rc[i, jt])
                  /\ RLeq(RInt(-1), rc[i, jt])
                  /\ RLeq(rc[i, jt], One)

\* a positive model with a non-zero coefficient on a trace whose fine grid
\* holds a value of the flat extension that is no velocity of the trace
C7_Witness ==
    /\ PositiveModel /\ RcReady
    /\ \E ij \in DOMAIN rc :
          /\ rc[ij] # Zero
          /\ \E i \in 0..(LenOf(TWT_rs) - 1) : vel[i, ij[2]] = One

\* C10: for a model of positive velocities resmpl is 10, every index
\* resmpl*j, 1 <= j < ceil(TMAX/dt), that the decimation reads is inside the
\* fine grid of ceil(TMAX/dt_dwn) samples, and the time axis holds j*dt at
\* sample j of every trace.
C10_DecimationInBounds ==
    (PositiveModel /\ pc \notin {"traveltime", "finegrid"} /\ result # "OverflowError") =>
        /\ resmpl(dt) = 10
        /\ LenOf(TWT_rs) = RCeil(RDiv(TMAX, RDiv(dt, RInt(10))))
        /\ \A jj \in 1..(RCeil(RDiv(TMAX, dt)) - 1) : 10 * jj < LenOf(TWT_rs)
        /\ DecimatedReady =>
              /\ DOMAIN TWT_ts = Shape(RCeil(RDiv(TMAX, dt)), n_traces)
              /\ \A ij \in DOMAIN TWT_ts : TWT_ts[ij] = RMul(RInt(ij[1]), dt)

\* a decimation that read the last sample of the fine grid, at 10*j
C10_Witness ==
    /\ PositiveModel /\ DecimatedReady
    /\ \E jj \in 1..(OutLen(TMAX, dt) - 1) : 10 * jj = LenOf(TWT_rs) - 1

\* the single-trace step model of 2h depth samples, dz = 1, dt = 0.002
StepCall ==
    /\ n_traces = 1 /\ ~rho.array /\ dz = 1 /\ dt = <<1, 500>>
    /\ n_samples % 2 = 0
    /\ model = StepModel(n_samples \div 2)
NonZero == {i \in 0..(OutLen(TMAX, dt) - 1) : rc[i, 0] # Zero}
\* the time sample nearest to the two-way time t
Nearest(j0, t) ==
    \A k \in 0..(OutLen(TMAX, dt) - 1) :
        LET d(i) == IF RLess(RMul(RInt(i), dt), t) THEN RSub(t, RMul(RInt(i), dt))
                    ELSE RSub(RMul(RInt(i), dt), t)
        IN  RLeq(d(j0), d(k))
\* the seismogram is w scaled by c and centred on sample j0, 0 elsewhere:
\* sample i is c*w[nc + i - j0]
ScaledWaveletAt(j0, c) ==
    \A i \in 0..(OutLen(TMAX, dt) - 1) : \A m \in 0..(LenOf(w) - 1) :
        ret.synth_l[i, 0][m] =
            IF m = (LenOf(w) - 1) \div 2 + i - j0 THEN c ELSE Zero
NoRampVelocity ==
    \A i \in 0..(OutLen(TMAX, dt) - 1) : vel_l[i, 0] \in {RInt(1500), RInt(3000)}

\* C2 as claimed: for every even number of depth samples the step model has
\* exactly one non-zero coefficient, 1/3, at the time sample nearest to the
\* two-way time of the interface (the base of the last 1500 sample,
\* TWT[h-1]); the seismogram is the wavelet scaled by 1/3 centred there; no
\* decimated velocity is a value of the interpolation ramp.
C2_StepAsClaimed ==
    (StepCall /\ Returned) =>
        \E j0 \in 0..(OutLen(TMAX, dt) - 1) :
            /\ NonZero = {j0}
            /\ rc[j0, 0] = <<1, 3>>
            /\ Nearest(j0, TWT[n_samples \div 2 - 1, 0])
            /\ ScaledWaveletAt(j0, <<1, 3>>)
            /\ NoRampVelocity

\* C2 as amended: with at least 8 depth samples (h >= 4) the step model has
\* exactly one non-zero coefficient, 1/3, at the first time sample at or after
\* the two-way time TWT[h] of the first 3000 sample, j0 = ceil(TWT[h]/dt); the
\* seismogram is the wavelet scaled by 1/3 centred there; no decimated
\* velocity is a value of the interpolation ramp.
C2_StepAmended ==
    (StepCall /\ n_samples >= 8 /\ Returned) =>
        LET j0 == RCeil(RDiv(TWT[n_samples \div 2, 0], dt))
        IN  /\ j0 \in 1..(OutLen(TMAX, dt) - 1)
            /\ NonZero = {j0}
            /\ rc[j0, 0] = <<1, 3>>
            /\ ScaledWaveletAt(j0, <<1, 3>>)
            /\ NoRampVelocity

\* a step model of 10 depth samples has returned, its coefficient at sample 4
C2_Witness ==
    /\ StepCall /\ Returned /\ n_samples = 10 /\ f = 30
    /\ rc[4, 0] = <<1, 3>>

\* the density the claim decimates: the fine-grid density at resmpl*j
IntendedImpedance ==
    [ij \in Shape(OutLen(TMAX, dt), n_traces) |->
        RMul(vel_l[ij], rho2[IF ij[1] = 0 THEN 0 ELSE resmpl(dt) * ij[1], ij[2]])]

\* C3: with a density array the reflection coefficients are those of the
\* impedance velocity*density, the density resampled and decimated as the
\* velocity is.
C3_ImpedanceReflectivity ==
    (rho.array /\ RcReady) =>
        rc = Reflectivity(IntendedImpedance, OutLen(TMAX, dt), n_traces)

\* C4: a model with a velocity <= 0 ends in an error, and the caller gets
\* neither a seismogram nor a time axis.  (Any exception is taken for the
\* error signal; the source names none InvalidModel.)
C4_InvalidModelFails ==
    (~PositiveModel /\ pc = "done") => (result # "returned" /\ ret = NoValue)

\* the traces whose fine-grid velocity is complete
Resampled == IF pc = "resample" THEN 0..(j - 1)
             ELSE IF VelReady THEN 0..(n_traces - 1) ELSE {}

\* C9: for a positive model, a resampled trace holds its first depth sample's
\* velocity below kk, the last interpolated value from lim on, and nothing
\* but velocities between the trace's smallest and largest depth sample.
C9_FlatExtension ==
    PositiveModel =>
        \A jt \in Resampled :
            LET x == Column(TWT, n_samples, jt)
                kk == Kk(x, dt)
                lim == Lim(x, n_samples, dt)
            IN  \A i \in 0..(LenOf(TWT_rs) - 1) :
                    /\ i < kk => vel[i, jt] = RInt(model[0, jt])
                    /\ (kk < lim /\ i >= lim) => vel[i, jt] = vel[lim - 1, jt]
                    /\ \E lo, hi \in 0..(n_samples - 1) :
                          /\ RLeq(RInt(model[lo, jt]), vel[i, jt])
                          /\ RLeq(vel[i, jt], RInt(model[hi, jt]))

ConvolveReady == pc \in {"convolve", "return"} \/ Returned
Convolved == IF pc = "convolve" THEN 0..(j - 1) ELSE 0..(n_traces - 1)

\* C5: the convolution of a trace has as many samples as its reflectivity
\* series, with the wavelet shorter or longer than the trace, and output
\* sample i is the sum over k of rc[k]*w[i - k + nc], nc the wavelet's centre.
C5_ConvolutionLength ==
    ConvolveReady =>
        LET la == OutLen(TMAX, dt)
            nw == LenOf(w)
            nc == (nw - 1) \div 2
        IN  \A jt \in 0..(n_traces - 1) :
                /\ LenOf(ConvolveTrace(Column(rc, la, jt), la, nw)) = la
                /\ jt \in Convolved =>
                      \A i \in 0..(la - 1) : \A m \in 0..(nw - 1) :
                          synth_l[i, jt][m] =
                              IF 0 <= i - m + nc /\ i - m + nc < la
                              THEN rc[i - m + nc, jt] ELSE Zero

\* a returned seismogram of a trace shorter than the wavelet, with a non-zero
\* reflection coefficient
C5_Witness ==
    /\ Returned
    /\ 1 < OutLen(TMAX, dt) /\ OutLen(TMAX, dt) < LenOf(w)
    /\ \E ij \in DOMAIN rc : rc[ij] # Zero

\* C6: rickerwave(f, dt) has the odd length 2*floor(2.2/(f*dt)/2) + 1 >= 1, is
\* symmetric about its centre, the phase at k the negation of the phase at
\* nw-1-k, and is exactly 1.0 at the centre (nw-1)/2, where the phase is 0.
C6_RickerSymmetric ==
    ConvolveReady =>
        LET nw == LenOf(w)
        IN  /\ DOMAIN w = 0..(nw - 1)
            /\ nw = 2 * ((22 * dt[2]) \div (20 * f * dt[1])) + 1
            /\ nw >= 1 /\ nw % 2 = 1
            /\ \A k \in 0..(nw - 1) :
                  /\ w[k].alpha = -w[nw - 1 - k].alpha
                  /\ w[k].amp = w[nw - 1 - k].amp
            /\ w[(nw - 1) \div 2].alpha = 0
            /\ w[(nw - 1) \div 2].amp = <<"one", 0>>

\* rickerwave(30, 0.002) has returned its 37 samples
C6_Witness ==
    /\ Returned /\ pc = "done" /\ f = 30 /\ dt = <<1, 500>>
    /\ LenOf(w) = 37 /\ w[0].amp = <<"ricker", 324>>

\* the one-trace model made of trace jt's depth column
OneTrace(jt) == [i \in 0..(n_samples - 1), t \in {0} |-> model[i, jt]]

\* the steps of the call on OneTrace(jt), on the fine grid of this call's TMAX
AloneVel(jt) ==
    LET n == FineLen(TMAX, dt)
        grid == Array([i \in 0..(n - 1) |-> GridTime(i, dt)])
        ones == Array([ij \in Shape(n, 1) |-> One])
        twt == Array(TravelTimes(OneTrace(jt), n_samples, 1, dz))
    IN  Array(ResampleTrace(twt, OneTrace(jt), n_samples, grid, n, ones, 0, dt).col)
AloneRc(jt) ==
    LET n == FineLen(TMAX, dt)
        m == OutLen(TMAX, dt)
        col == AloneVel(jt)
        v == Array([i \in 0..(n - 1), t \in {0} |-> col[i]])
    IN  Array(Column(Reflectivity(Array(Decimated(v, m, 1, resmpl(dt))), m, 1), m, 0))
AloneSynth(jt) == ConvolveTrace(AloneRc(jt), OutLen(TMAX, dt), Nw(f, dt))

\* C8: the resampled velocity, the reflectivity and the seismogram of trace j
\* depend on the trace's own depth column and on TMAX alone (with dz, dt, f):
\* they are what the same steps give on the one-trace model made of that
\* column, on the fine grid of TMAX, while the other traces are being
\* processed and after the call has returned.
C8_TraceIndependence ==
    /\ pc \in {"resample", "decimate"} =>
          \A jt \in Resampled :
              Column(vel, LenOf(TWT_rs), jt) = AloneVel(jt)
    /\ Returned =>
          \A jt \in 0..(n_traces - 1) :
              /\ Column(rc, OutLen(TMAX, dt), jt) = AloneRc(jt)
              /\ Column(synth_l, OutLen(TMAX, dt), jt) = AloneSynth(jt)

\* a returned two-trace call whose second trace differs from the first, ends
\* before TMAX and has a non-zero reflection coefficient
C8_Witness ==
    /\ Returned /\ n_traces = 2 /\ PositiveModel
    /\ \E i \in 0..(n_samples - 1) : model[i, 0] # model[i, 1]
    /\ RLess(TWT[n_samples - 1, 1], TMAX)
    /\ \E i \in 1..(OutLen(TMAX, dt) - 1) : rc[i, 1] # Zero

====
